---- MODULE Spec2Model ----
(***************************************************************************)
(* Landmark alignment and mesh warp of openbr/plugins/landmarks.cpp:       *)
(* ProcrustesTransform (train, project) and DelaunayTransform (project).   *)
(* Spec runs them on one record at a time, InferSpec runs project calls of *)
(* several threads on one trained ProcrustesTransform, and WindowSpec runs *)
(* SlidingWindowTransform::project of openbr/plugins/slidingwindow.cpp.    *)
(*                                                                         *)
(* Numbers.  A qreal/double is an integer count of 1/Unit; a float is a    *)
(* double that is a multiple of FloatStep/Unit, so that storing a double   *)
(* into a float (QList<float>, Point2f, MatrixXf) rounds.  NaN stands for  *)
(* every non-finite value (the result of a division by zero).              *)
(***************************************************************************)
EXTENDS Integers, Sequences, FiniteSets, TLC

Unit == 16 * 16
FloatStep == 4 * 4
NaN == 0 - 1000000000

---------------------------------------------------------------------------
(* Arithmetic of the two number formats *)

Max2(a, b) == IF a < b THEN b ELSE a

Min2(a, b) == IF a < b THEN a ELSE b

\* a / b rounded to the nearest integer, b > 0
RoundDiv(a, b) == (2 * a + b) \div (2 * b)

\* narrowing of a double to float
ToFloat(v) == IF v = NaN THEN NaN ELSE RoundDiv(v, FloatStep) * FloatStep

Add(a, b) == IF a = NaN \/ b = NaN THEN NaN ELSE a + b

Sub(a, b) == IF a = NaN \/ b = NaN THEN NaN ELSE a - b

\* product of two numbers counted in 1/Unit
Mul(a, b) == IF a = NaN \/ b = NaN THEN NaN ELSE RoundDiv(a * b, Unit)

\* quotient of two numbers counted in 1/Unit; x/0 is not finite
Div(a, b) ==
    IF a = NaN \/ b = NaN \/ b = 0 THEN NaN
    ELSE IF b < 0 THEN RoundDiv((0 - a) * Unit, 0 - b)
    ELSE RoundDiv(a * Unit, b)

RECURSIVE ISqrtBits(_, _, _)
\* largest r with r*r <= n, found bit by bit from the bit b down
ISqrtBits(n, r, b) ==
    IF b = 0 THEN r
    ELSE LET t == r + b
         IN  ISqrtBits(n, IF t * t <= n THEN t ELSE r, b \div 2)

ISqrt(n) == ISqrtBits(n, 0, 16384)

\* square root of sq, where sq is a sum of squares of numbers counted in 1/Unit
Sqrt(sq) ==
    LET r == ISqrt(sq)
    IN  IF sq - r * r > r THEN r + 1 ELSE r

RECURSIVE SumSeq(_)
SumSeq(s) == IF s = <<>> THEN 0 ELSE Head(s) + SumSeq(Tail(s))

SeqMap(Op(_), s) == [i \in 1..Len(s) |-> Op(s[i])]

---------------------------------------------------------------------------
(* Points, rects, images, templates *)

\* QPointF at the pixel coordinates (px, py)
QPointF(px, py) == [x |-> px * Unit, y |-> py * Unit]

\* QRectF(x, y, w, h)
QRectF(px, py, w, h) == [x |-> px * Unit, y |-> py * Unit, w |-> w * Unit, h |-> h * Unit]

topLeft(r) == [x |-> r.x, y |-> r.y]

topRight(r) == [x |-> r.x + r.w, y |-> r.y]

bottomLeft(r) == [x |-> r.x, y |-> r.y + r.h]

bottomRight(r) == [x |-> r.x + r.w, y |-> r.y + r.h]

\* OpenCVUtils::toPoint: QPointF (double) to Point2f (float)
toPoint(p) == [x |-> ToFloat(p.x), y |-> ToFloat(p.y)]

toPoints(ps) == SeqMap(toPoint, ps)

\* points.append of the four corners of the rect appended last
AppendCorners(points, rects) ==
    LET r == rects[Len(rects)]
    IN  points \o <<topLeft(r), topRight(r), bottomLeft(r), bottomRight(r)>>

\* cv::mean of a vector of Point2f: the sums are doubles
cvMean(ps) ==
    [x |-> RoundDiv(SumSeq([i \in 1..Len(ps) |-> ps[i].x]), Len(ps)),
     y |-> RoundDiv(SumSeq([i \in 1..Len(ps) |-> ps[i].y]), Len(ps))]

\* cv::norm (L2) of a vector of Point2f
cvNorm(ps) ==
    Sqrt(SumSeq([i \in 1..Len(ps) |-> ps[i].x * ps[i].x + ps[i].y * ps[i].y]))

\* for (...) points[i] -= QPointF(mean[0], mean[1])
Center(points, mean) ==
    [i \in 1..Len(points) |-> [x |-> points[i].x - mean.x, y |-> points[i].y - mean.y]]

\* for (...) points[i] /= norm
Scale(points, norm) ==
    [i \in 1..Len(points) |-> [x |-> Div(points[i].x, norm), y |-> Div(points[i].y, norm)]]

---------------------------------------------------------------------------
(* Template: the image m(), file.points(), file.rects() and the two lists  *)
(* of the file's key/value store the transforms use                        *)

Template(m, points, rects) ==
    [m |-> m, points |-> points, rects |-> rects,
     hasStats |-> FALSE, ProcrustesStats |-> <<>>,
     hasTriangles |-> FALSE, DelaunayTriangles |-> <<>>]

\* a default-constructed Template (an unassigned dst)
EmptyTemplate ==
    Template([cols |-> 0, rows |-> 0, pix |-> <<>>], <<>>, <<>>)

---------------------------------------------------------------------------
(* ProcrustesTransform *)

\* lines 46-52 and 96-105: center at the mean, divide by the float norm
Normalize(points) ==
    LET mean == cvMean(toPoints(points))
        centered == Center(points, mean)
        norm == ToFloat(cvNorm(toPoints(centered)))
    IN  [mean |-> mean, norm |-> norm, points |-> Scale(centered, norm)]

\* the records train keeps: if (points.empty() || rects.empty()) continue
Usable(datum) == datum.points # <<>> /\ datum.rects # <<>>

RECURSIVE AddAll(_)
AddAll(s) == IF s = <<>> THEN 0 ELSE Add(Head(s), AddAll(Tail(s)))

\* x /= (double)normalizedPoints.size()
Average(s) ==
    LET x == AddAll(s) IN IF x = NaN THEN NaN ELSE RoundDiv(x, Len(s))

\* normalizedPoints of train: one normalized point list per usable record
NormalizedPoints(data) ==
    LET usable == SelectSeq(data, Usable)
    IN  [j \in 1..Len(usable) |->
            Normalize(AppendCorners(usable[j].points, usable[j].rects)).points]

\* normalizedPoints[j][i] reads past the end of a shorter list
ReadsPastEnd(np) == \E j \in 1..Len(np) : Len(np[j]) < Len(np[1])

\* MeanShapeOf sized by the last list of normalizedPoints, not the first
MeanShapeOfLast(np, g) ==
    LET at(j, i) == IF i <= Len(np[j]) THEN np[j][i] ELSE [x |-> g, y |-> g]
    IN  [i \in 1..Len(np[Len(np)]) |->
            [x |-> ToFloat(Average([j \in 1..Len(np) |-> at(j, i).x])),
             y |-> ToFloat(Average([j \in 1..Len(np) |-> at(j, i).y]))]]

\* lines 60-76: the mean shape; g is the value an out-of-range
\* normalizedPoints[j][i] yields
MeanShapeOf(np, g) ==
    LET at(j, i) == IF i <= Len(np[j]) THEN np[j][i] ELSE [x |-> g, y |-> g]
    IN  [i \in 1..Len(np[1]) |->
            [x |-> ToFloat(Average([j \in 1..Len(np) |-> at(j, i).x])),
             y |-> ToFloat(Average([j \in 1..Len(np) |-> at(j, i).y]))]]

\* Eigen::MatrixXf srcMat of project: the normalized points, stored as float
SrcMat(normalized) ==
    [i \in 1..Len(normalized) |->
        [x |-> ToFloat(normalized[i].x), y |-> ToFloat(normalized[i].y)]]

\* float dot product of two columns
Dot(u, v) ==
    LET terms == [i \in 1..Len(u) |-> Mul(u[i], v[i])]
    IN  ToFloat(AddAll(terms))

\* srcMat.transpose()*meanShape, a 2x2 float matrix (rows equal in number)
CrossCovariance(srcMat, mean) ==
    LET sx == [i \in 1..Len(srcMat) |-> srcMat[i].x]
        sy == [i \in 1..Len(srcMat) |-> srcMat[i].y]
        mx == [i \in 1..Len(mean) |-> mean[i].x]
        my == [i \in 1..Len(mean) |-> mean[i].y]
    IN  [m00 |-> Dot(sx, mx), m01 |-> Dot(sx, my),
         m10 |-> Dot(sy, mx), m11 |-> Dot(sy, my)]

Matrix2(r00, r01, r10, r11) == [r00 |-> r00, r01 |-> r01, r10 |-> r10, r11 |-> r11]

Identity2 == Matrix2(Unit, 0, 0, Unit)

NaNMatrix == Matrix2(NaN, NaN, NaN, NaN)

\* the float unit vector along (p, q), not both zero
UnitVector(p, q) ==
    LET h == Sqrt(p * p + q * q)
    IN  [c |-> ToFloat(Div(p, h)), s |-> ToFloat(Div(q, h))]

\* the rotation R maximizing trace(R^T M)
BestRotation(M) ==
    LET u == UnitVector(M.m00 + M.m11, M.m10 - M.m01)
    IN  Matrix2(u.c, 0 - u.s, u.s, u.c)

\* the reflection R maximizing trace(R^T M)
BestReflection(M) ==
    LET u == UnitVector(M.m00 - M.m11, M.m01 + M.m10)
    IN  Matrix2(u.c, u.s, u.s, 0 - u.c)

\* svd.matrixU()*svd.matrixV().transpose() for the JacobiSVD of M: the
\* orthogonal factor of M, a rotation when det M > 0, a reflection when
\* det M < 0, either of the two when M is singular
SvdRotations(M) ==
    IF NaN \in {M.m00, M.m01, M.m10, M.m11} THEN {NaNMatrix}
    ELSE LET det == M.m00 * M.m11 - M.m01 * M.m10
         IN  IF det > 0 THEN {BestRotation(M)}
             ELSE IF det < 0 THEN {BestReflection(M)}
             ELSE IF M = [m00 |-> 0, m01 |-> 0, m10 |-> 0, m11 |-> 0] THEN {Identity2}
             ELSE {BestRotation(M), BestReflection(M)}

\* Eigen::MatrixXf dstMat = srcMat*R, row by row
TimesR(mat, R) ==
    [i \in 1..Len(mat) |->
        [x |-> ToFloat(Add(Mul(mat[i].x, R.r00), Mul(mat[i].y, R.r10))),
         y |-> ToFloat(Add(Mul(mat[i].x, R.r01), Mul(mat[i].y, R.r11)))]]

\* procrustesStats << R(0,0) << R(1,0) << R(1,1) << R(0,1) << mean[0] << mean[1] << norm
StoreStats(R, mean, norm) ==
    <<R.r00, R.r10, R.r11, R.r01, ToFloat(mean.x), ToFloat(mean.y), norm>>

\* ProjectWith that appends the rotated points whatever warp is
ProjectWithAlways(src, n, R, warp) ==
    [src EXCEPT !.hasStats = TRUE,
                !.ProcrustesStats = StoreStats(R, n.mean, n.norm),
                !.points = src.points \o TimesR(SrcMat(n.points), R)]

\* ProjectWith that puts the rotated points in place of the landmarks
ProjectWithReplace(src, n, R, warp) ==
    LET withStats == [src EXCEPT !.hasStats = TRUE,
                                 !.ProcrustesStats = StoreStats(R, n.mean, n.norm)]
    IN  IF warp
        THEN [withStats EXCEPT !.points = TimesR(SrcMat(n.points), R)]
        ELSE withStats

\* ProcrustesTransform::project past the empty check, for a rotation R:
\* dst = src, the stats list, and with warp the appended rows of srcMat*R
ProjectWith(src, n, R, warp) ==
    LET withStats == [src EXCEPT !.hasStats = TRUE,
                                 !.ProcrustesStats = StoreStats(R, n.mean, n.norm)]
    IN  IF warp
        THEN [withStats EXCEPT !.points = src.points \o TimesR(SrcMat(n.points), R)]
        ELSE withStats

---------------------------------------------------------------------------
(* DelaunayTransform *)

\* OnBoundary without the test of y against rows
OnBoundaryNoRows(p, cols, rows) ==
    p.x < 0 \/ p.y < 0 \/ p.x >= cols * Unit

\* OnBoundary with > where the code has >=
OnBoundaryStrict(p, cols, rows) ==
    p.x < 0 \/ p.y < 0 \/ p.y > rows * Unit \/ p.x > cols * Unit

\* line 178: a point Subdiv2D cannot take
OnBoundary(p, cols, rows) ==
    p.x < 0 \/ p.y < 0 \/ p.y >= rows * Unit \/ p.x >= cols * Unit

\* line 183: Subdiv2D::insert raises an error for a Point2f outside its rect
InsertThrows(pt, cols, rows) ==
    pt.x < 0 \/ pt.y < 0 \/ pt.x >= cols * Unit \/ pt.y >= rows * Unit

\* the three vertices of the outer triangle Subdiv2D(Rect(0,0,cols,rows)) starts from
OuterVertices(cols, rows) ==
    LET big == 3 * Max2(cols, rows) * Unit
    IN  {[x |-> big, y |-> 0], [x |-> 0, y |-> big], [x |-> 0 - big, y |-> 0 - big]}

\* the vertices a triangle of getTriangleList can have: the inserted points
\* (as Point2f) and the outer vertices
SubdivVertices(points, cols, rows) ==
    {toPoint(points[i]) : i \in 1..Len(points)} \cup OuterVertices(cols, rows)

\* OutsideMatrix without the test of x against cols
OutsideMatrixNoCols(v, cols, rows) ==
    v.y > rows * Unit \/ v.x < 0 \/ v.y < 0

\* line 199: a vertex that makes its triangle invalid
OutsideMatrix(v, cols, rows) ==
    v.x > cols * Unit \/ v.y > rows * Unit \/ v.x < 0 \/ v.y < 0

\* lines 191-202: the vertices of the triangles that fall within the matrix,
\* three per triangle, in the order of triangleList
RECURSIVE ValidTriangles(_, _, _)
ValidTriangles(triangleList, cols, rows) ==
    IF triangleList = <<>> THEN <<>>
    ELSE LET vertices == Head(triangleList)
             valid == \A j \in 1..3 : ~OutsideMatrix(vertices[j], cols, rows)
         IN  (IF valid THEN vertices ELSE <<>>)
                \o ValidTriangles(Tail(triangleList), cols, rows)

\* ReadStats with R(1,0) and R(0,1) read from each other's index
ReadStatsTransposed(procrustesStats) ==
    [R |-> Matrix2(procrustesStats[1], procrustesStats[2],
                   procrustesStats[4], procrustesStats[3]),
     mean |-> [x |-> procrustesStats[5], y |-> procrustesStats[6]],
     norm |-> procrustesStats[7]]

\* lines 209-219: R, mean and norm read back from the stats list
ReadStats(procrustesStats) ==
    [R |-> Matrix2(procrustesStats[1], procrustesStats[4],
                   procrustesStats[2], procrustesStats[3]),
     mean |-> [x |-> procrustesStats[5], y |-> procrustesStats[6]],
     norm |-> procrustesStats[7]]

\* lines 225-232: the vertex, centered and scaled by the stats, as a float row
MapVertex(v, st) ==
    [x |-> ToFloat(Div(Sub(v.x, st.mean.x), st.norm)),
     y |-> ToFloat(Div(Sub(v.y, st.mean.y), st.norm))]

\* line 240: Point2f(dstMat(j,0)*scaleFactor+cols/2, dstMat(j,1)*scaleFactor+rows/2)
WarpedPoint(d, scaleFactor, cols, rows) ==
    [x |-> ToFloat(Add(Mul(d.x, scaleFactor), (cols \div 2) * Unit)),
     y |-> ToFloat(Add(Mul(d.y, scaleFactor), (rows \div 2) * Unit))]

\* dstPoints of the triangle whose vertices are tri (three QPointF)
DstPoints(tri, st, scaleFactor, cols, rows) ==
    LET dstMat == TimesR([j \in 1..3 |-> MapVertex(tri[j], st)], st.R)
    IN  [j \in 1..3 |-> WarpedPoint(dstMat[j], scaleFactor, cols, rows)]

\* cvRound: to the nearest integer, halves to the even one
cvRound(v) ==
    LET f == v \div Unit
        r == v - f * Unit
    IN  IF 2 * r < Unit THEN f
        ELSE IF 2 * r > Unit THEN f + 1
        ELSE IF f % 2 = 0 THEN f ELSE f + 1

\* Point(Point2f): maskPoints[0][j] = dstPoints[j]
MaskPoint(p) == [x |-> cvRound(p.x), y |-> cvRound(p.y)]

Cross(a, b, p) == (b.x - a.x) * (p.y - a.y) - (b.y - a.y) * (p.x - a.x)

\* the pixel (x, y) lies in the closed triangle a, b, c
InTriangle(x, y, a, b, c) ==
    LET p == [x |-> x, y |-> y]
        d1 == Cross(a, b, p)
        d2 == Cross(b, c, p)
        d3 == Cross(c, a, p)
    IN  /\ ~((d1 < 0 \/ d2 < 0 \/ d3 < 0) /\ (d1 > 0 \/ d2 > 0 \/ d3 > 0))
        /\ x >= Min2(a.x, Min2(b.x, c.x)) /\ x <= Max2(a.x, Max2(b.x, c.x))
        /\ y >= Min2(a.y, Min2(b.y, c.y)) /\ y <= Max2(a.y, Max2(b.y, c.y))

\* pixel k (1-based, row-major) of a cols-wide matrix
PixX(k, cols) == (k - 1) % cols

PixY(k, cols) == (k - 1) \div cols

\* Mat::zeros(rows, cols, type)
Zeros(cols, rows) == [k \in 1..(cols * rows) |-> 0]

\* fillConvexPoly(mask, ppt, 3, Scalar(255,255,255), 8) on a zero mask
FillConvexPoly(mp, cols, rows) ==
    [k \in 1..(cols * rows) |->
        IF InTriangle(PixX(k, cols), PixY(k, cols), mp[1], mp[2], mp[3]) THEN 255 ELSE 0]

\* bitwise_and of a matrix with an 8-bit mask of 0 and 255
BitwiseAnd(mat, mask) == [k \in 1..Len(mat) |-> IF mask[k] = 255 THEN mat[k] ELSE 0]

\* SuppressOverlap with the test inverted: mask.setTo(0, overlap == 0)
SuppressOverlapInverted(mask, overlap) ==
    [k \in 1..Len(mask) |-> IF overlap[k] = 0 THEN 0 ELSE mask[k]]

\* mask.setTo(0, overlap != 0)
SuppressOverlap(mask, overlap) ==
    [k \in 1..Len(mask) |-> IF overlap[k] # 0 THEN 0 ELSE mask[k]]

\* OverlapRule that leaves the mask as it is
OverlapRuleNone(i, dstM, mask) == mask

\* lines 260-264: the mask after the overlap rule, for the triangle at index i
OverlapRule(i, dstM, mask) ==
    IF i > 0 THEN SuppressOverlap(mask, BitwiseAnd(dstM, mask)) ELSE mask

\* dst.m() += output, saturating at the 8-bit maximum
AddSaturate(dstM, output) ==
    [k \in 1..Len(dstM) |-> Min2(dstM[k] + output[k], 255)]

\* lines 266-268
Composite(dstM, buffer, mask) == AddSaturate(dstM, BitwiseAnd(buffer, mask))

---------------------------------------------------------------------------
(* Bounds and inputs *)

\* the most triangles getTriangleList returns
MaxTriangles == 2

Image(cols, rows, pix) == [cols |-> cols, rows |-> rows, pix |-> pix]

SourceImage == Image(3, 3, <<100, 0, 200,  0, 100, 200,  200, 0, 100>>)

\* the rect that is the whole extent of SourceImage
FullRect == QRectF(0, 0, 3, 3)

InnerRect == QRectF(0, 0, 2, 2)

\* records with missing landmarks or rects
EmptyRecords ==
    { Template(SourceImage, <<>>, <<InnerRect>>),
      Template(SourceImage, <<QPointF(1, 1)>>, <<>>) }

\* records whose points and corners all lie inside the image
InsideRecords ==
    { Template(SourceImage, <<QPointF(2, 0)>>, <<InnerRect>>),
      Template(SourceImage, <<QPointF(2, 2)>>, <<FullRect, InnerRect>>),
      Template(SourceImage, <<QPointF(1, 1)>>, <<QRectF(1, 1, 0, 0)>>) }

\* records with a landmark or a corner on or outside the bounds
BoundaryRecords ==
    { Template(SourceImage, <<QPointF(3, 1)>>, <<InnerRect>>),
      Template(SourceImage, <<QPointF(1, 3)>>, <<InnerRect>>),
      Template(SourceImage, <<QPointF(0 - 1, 1)>>, <<InnerRect>>),
      Template(SourceImage, <<QPointF(1, 0 - 1)>>, <<InnerRect>>),
      Template(SourceImage, <<[x |-> 3 * Unit - 1, y |-> Unit]>>, <<InnerRect>>),
      Template(SourceImage, <<QPointF(1, 0), QPointF(2, 1)>>, <<FullRect>>) }

\* the records given to the transforms
InputRecords == EmptyRecords \cup InsideRecords \cup BoundaryRecords

\* the training sets
TrainingSets ==
    LET noPoints == Template(SourceImage, <<>>, <<InnerRect>>)
        noRects == Template(SourceImage, <<QPointF(1, 1)>>, <<>>)
        one == Template(SourceImage, <<QPointF(2, 0)>>, <<InnerRect>>)
        other == Template(SourceImage, <<QPointF(2, 2)>>, <<FullRect, InnerRect>>)
        two == Template(SourceImage, <<QPointF(1, 0), QPointF(2, 1)>>, <<FullRect>>)
        coincident == Template(SourceImage, <<QPointF(1, 1)>>, <<QRectF(1, 1, 0, 0)>>)
    IN  { <<>>, <<noPoints>>, <<noRects, noPoints>>,
          <<one>>, <<two>>, <<noPoints, two>>, <<one, other>>,
          <<one, two>>, <<two, one>>, <<coincident>> }

\* values of the scaleFactor property
ScaleFactors == {Unit, 2 * Unit}

\* what a read of memory outside a list or a matrix can yield
ArbitraryValues == {0, NaN}

\* images warpAffine can resample from the source image m
ResampledBuffers(m) ==
    { m.pix,
      [k \in 1..Len(m.pix) |-> m.pix[Len(m.pix) + 1 - k]],
      [k \in 1..Len(m.pix) |-> m.pix[((k + 2) % Len(m.pix)) + 1]] }

---------------------------------------------------------------------------
(* State *)

VARIABLES
    trainCalled,    \* train has been called
    trainData,      \* the data it was given
    meanShape,      \* ProcrustesTransform::meanShape, a list of float rows
    trained,        \* train has assigned meanShape
    pc,             \* "ready", "filter", "warp", "fatal", "crash"
    last,           \* the project call made on the record: "none", "procrustes", "delaunay"
    src,            \* the src of the last project call
    dst,            \* the dst of the last project call
    warning,        \* the last project call emitted a qWarning
    alignWarp,      \* the warp property of the last ProcrustesTransform::project
    alignPoints,    \* its local points after the corners were appended
    alignStats,     \* its locals R, mean and norm
    chained,        \* the last DelaunayTransform::project took the aligner's dst
    meshWarp,       \* its warp property
    scaleFactor,    \* its scaleFactor property
    meshPoints,     \* its local points after the corners were appended
    taken,          \* the number of triangles of triangleList it has looked at
    validTriangles, \* its local validTriangles
    i,              \* the index of the warp loop
    stats,          \* R, mean and norm of the warp loop
    mappedPoints,   \* the local mappedPoints of the warp loop
    covered,        \* per pixel: the number of destination masks holding it so far
    firstBuffer,    \* per pixel: the buffer value of the first such triangle
    firstDrawn,     \* per pixel: the first non-zero buffer value of such triangles
    contributions,  \* per pixel: the number of non-zero output values added
    calls,          \* per thread: the ProcrustesTransform::project call it is in
    window,         \* the SlidingWindowTransform: its properties and windowHeight
    slide           \* the SlidingWindowTransform::project call under way

vars ==
    <<trainCalled, trainData, meanShape, trained, pc, last, src, dst, warning,
      alignWarp, alignPoints, alignStats, chained, meshWarp, scaleFactor, meshPoints, taken, validTriangles, i, stats,
      mappedPoints, covered, firstBuffer, firstDrawn, contributions, calls,
      window, slide>>

modelVars == <<trainCalled, trainData, meanShape, trained>>

alignVars == <<alignWarp, alignPoints, alignStats>>

NoStats == [R |-> Identity2, mean |-> [x |-> 0, y |-> 0], norm |-> 0]

windowVars == <<window, slide>>

\* slidingwindow.cpp lines 47-56: the properties as the host set them and
\* windowHeight as train left it; lengths in pixels, threshold a float
SlidingWindowTransform(stepSize, takeFirst, windowWidth, windowHeight, threshold) ==
    [stepSize |-> stepSize, takeFirst |-> takeFirst, windowWidth |-> windowWidth,
     windowHeight |-> windowHeight, threshold |-> threshold, trained |-> TRUE]

\* lines 48-51: the transform as constructed, windowHeight not yet set by train
Untrained ==
    [SlidingWindowTransform(1, FALSE, 24, 0, 0) EXCEPT !.trained = FALSE]

\* a record as SlidingWindowTransform::project reads it: the size of m(), the
\* Train flag, the scale, the rects and the Confidences list of the file
WindowRecord(cols, rows, train, scale, rects, hasConfidences, confidences) ==
    [cols |-> cols, rows |-> rows, Train |-> train, scale |-> scale,
     rects |-> rects, hasConfidences |-> hasConfidences,
     Confidences |-> confidences]

NoRecord == WindowRecord(0, 0, FALSE, Unit, <<>>, FALSE, <<>>)

\* no SlidingWindowTransform::project is under way; scanned lists the
\* windows given to transform->project so far, with the confidence of each
NoSlide ==
    [pc |-> "idle", src |-> NoRecord, dst |-> NoRecord, x |-> 0, y |-> 0,
     confidences |-> <<>>, scanned |-> <<>>]

\* the threads of a host pipeline that projects records in parallel
Threads == {1, 2}

\* a thread that is in no call: pc is its position in project, the other
\* fields are the parameters src and dst and the locals of the call
NoCall ==
    [pc |-> "idle", src |-> EmptyTemplate, warp |-> FALSE, points |-> <<>>,
     srcMat |-> <<>>, mean |-> [x |-> 0, y |-> 0], norm |-> 0, R |-> Identity2,
     dst |-> EmptyTemplate, warning |-> FALSE]

\* no ProcrustesTransform::project is in the picture
NoAlign ==
    /\ alignWarp' = FALSE
    /\ alignPoints' = <<>>
    /\ alignStats' = NoStats

\* the locals of the loops of DelaunayTransform::project before they run
NoLoop ==
    /\ taken' = 0
    /\ validTriangles' = <<>>
    /\ i' = 0
    /\ stats' = NoStats
    /\ mappedPoints' = <<>>
    /\ covered' = <<>>
    /\ firstBuffer' = <<>>
    /\ firstDrawn' = <<>>
    /\ contributions' = <<>>

\* no DelaunayTransform::project is in the picture
NoMesh ==
    /\ chained' = FALSE
    /\ meshWarp' = FALSE
    /\ scaleFactor' = Unit
    /\ meshPoints' = <<>>
    /\ NoLoop

Init ==
    /\ trainCalled = FALSE
    /\ trainData = <<>>
    /\ meanShape = <<>>
    /\ trained = FALSE
    /\ pc = "ready"
    /\ last = "none"
    /\ src = EmptyTemplate
    /\ dst = EmptyTemplate
    /\ warning = FALSE
    /\ alignWarp = FALSE
    /\ alignPoints = <<>>
    /\ alignStats = NoStats
    /\ chained = FALSE
    /\ meshWarp = FALSE
    /\ scaleFactor = Unit
    /\ meshPoints = <<>>
    /\ taken = 0
    /\ validTriangles = <<>>
    /\ i = 0
    /\ stats = NoStats
    /\ mappedPoints = <<>>
    /\ covered = <<>>
    /\ firstBuffer = <<>>
    /\ firstDrawn = <<>>
    /\ contributions = <<>>
    /\ calls = [t \in Threads |-> NoCall]
    /\ window = Untrained
    /\ slide = NoSlide

---------------------------------------------------------------------------
(* ProcrustesTransform::train *)

Train(data) ==
    /\ pc = "ready"
    /\ ~trained
    /\ last = "none"
    /\ last' = "none"
    /\ trainCalled' = TRUE
    /\ trainData' = data
    /\ LET normalizedPoints == NormalizedPoints(data)
       IN  IF normalizedPoints = <<>>
           THEN \* qFatal("Unable to calculate normalized points")
                /\ pc' = "fatal"
                /\ UNCHANGED <<meanShape, trained>>
           ELSE IF ReadsPastEnd(normalizedPoints)
           THEN \* line 67 reads past the end of a list: the read ends the
                \* process or yields some value
                \E g \in ArbitraryValues :
                    /\ meanShape' = MeanShapeOf(normalizedPoints, g)
                    /\ trained' = TRUE
                    /\ pc' \in {"crash", "ready"}
           ELSE /\ meanShape' = MeanShapeOf(normalizedPoints, 0)
                /\ trained' = TRUE
                /\ pc' = "ready"
    /\ src' = EmptyTemplate
    /\ dst' = EmptyTemplate
    /\ warning' = FALSE
    /\ NoAlign
    /\ NoMesh

---------------------------------------------------------------------------
(* ProcrustesTransform::project *)

\* the rotations lines 107-108 can yield: with as many rows in srcMat as in
\* meanShape the SVD result, otherwise the product reads outside meanShape
Rotations(srcMat) ==
    IF Len(srcMat) = Len(meanShape)
    THEN SvdRotations(CrossCovariance(srcMat, meanShape))
    ELSE {Identity2, NaNMatrix}

ProcrustesProject(record, warp) ==
    /\ pc = "ready"
    /\ trained
    /\ last = "none"
    /\ last' = "procrustes"
    /\ src' = record
    /\ alignWarp' = warp
    /\ IF record.points = <<>> \/ record.rects = <<>>
       THEN /\ dst' = record
            /\ warning' = TRUE
            /\ alignPoints' = <<>>
            /\ alignStats' = NoStats
            /\ pc' = "ready"
       ELSE LET points == AppendCorners(record.points, record.rects)
                n == Normalize(points)
            IN  /\ alignPoints' = points
                /\ warning' = FALSE
                /\ \/ /\ Len(points) # Len(meanShape)
                      /\ pc' = "crash"
                      /\ dst' = EmptyTemplate
                      /\ alignStats' = NoStats
                   \/ \E R \in Rotations(SrcMat(n.points)) :
                         /\ dst' = ProjectWith(record, n, R, warp)
                         /\ alignStats' = [R |-> R, mean |-> n.mean, norm |-> n.norm]
                         /\ pc' = "ready"
    /\ NoMesh
    /\ UNCHANGED modelVars

---------------------------------------------------------------------------
(* DelaunayTransform::project *)

\* p comes before q, by x and then by y
Before(p, q) == p.x < q.x \/ (p.x = q.x /\ p.y < q.y)

\* the triangles getTriangleList can hold: three distinct vertices of the
\* subdivision (written in the order of Before); which of them it holds,
\* and in which order, is left open
Triangles(points, cols, rows) ==
    LET V == SubdivVertices(points, cols, rows)
    IN  {t \in V \X V \X V : Before(t[1], t[2]) /\ Before(t[2], t[3])}

\* the stats a read of a missing list can yield
ArbitraryStats ==
    {[R |-> Identity2, mean |-> [x |-> 0, y |-> 0], norm |-> Unit],
     [R |-> NaNMatrix, mean |-> [x |-> NaN, y |-> NaN], norm |-> NaN]}

\* lines 154-184: the checks, up to the insertion of the points
DelaunayProject(record, chain, warp, sf) ==
    /\ pc = "ready"
    /\ chain => last = "procrustes" /\ record = dst
    \* DelaunayTransform reads nothing of ProcrustesTransform: a record that
    \* did not pass through the aligner is meshed before the training
    /\ ~chain => last = "none" /\ ~trained /\ record \in InputRecords
    /\ last' = "delaunay"
    /\ chained' = chain
    /\ meshWarp' = warp
    /\ scaleFactor' = sf
    /\ src' = record
    /\ NoLoop
    /\ IF record.points = <<>> \/ record.rects = <<>>
       THEN /\ dst' = record
            /\ warning' = TRUE
            /\ meshPoints' = <<>>
            /\ pc' = "ready"
       ELSE LET points == AppendCorners(record.points, record.rects)
            IN  /\ meshPoints' = points
                /\ IF \E k \in 1..Len(points) :
                          OnBoundary(points[k], record.m.cols, record.m.rows)
                   THEN /\ dst' = record
                        /\ warning' = TRUE
                        /\ pc' = "ready"
                   ELSE /\ dst' = EmptyTemplate
                        /\ warning' = FALSE
                        /\ IF \E k \in 1..Len(points) :
                                  InsertThrows(toPoint(points[k]),
                                               record.m.cols, record.m.rows)
                           THEN pc' = "crash"
                           ELSE pc' = "filter"
    /\ IF chain THEN UNCHANGED alignVars ELSE NoAlign
    /\ UNCHANGED modelVars

\* one pass of the loop of lines 191-202 over the next triangle of triangleList
FilterTriangle ==
    /\ pc = "filter"
    /\ taken < MaxTriangles
    /\ \E vertices \in Triangles(meshPoints, src.m.cols, src.m.rows) :
          validTriangles' =
              validTriangles \o ValidTriangles(<<vertices>>, src.m.cols, src.m.rows)
    /\ taken' = taken + 1
    /\ UNCHANGED <<modelVars, pc, last, src, dst, warning, alignVars,
                   chained, meshWarp, scaleFactor, meshPoints, i, stats,
                   mappedPoints, covered, firstBuffer, firstDrawn, contributions>>

\* lines 204-219: the zero image and the stats the warp loop starts from
EnterWarp ==
    LET cols == src.m.cols
        rows == src.m.rows
    IN  /\ dst' = [EmptyTemplate EXCEPT !.m = Image(cols, rows, Zeros(cols, rows))]
        /\ covered' = Zeros(cols, rows)
        /\ firstBuffer' = Zeros(cols, rows)
        /\ firstDrawn' = Zeros(cols, rows)
        /\ contributions' = Zeros(cols, rows)
        /\ IF src.hasStats /\ Len(src.ProcrustesStats) >= 7
           THEN /\ stats' = ReadStats(src.ProcrustesStats)
                /\ pc' = "warp"
           ELSE \* no list under ProcrustesStats: at(0) has nothing to read
                \/ /\ pc' = "crash"
                   /\ stats' = NoStats
                \/ /\ pc' = "warp"
                   /\ stats' \in ArbitraryStats

\* triangleList is at its end: line 204 with warp, lines 274-276 without
FilterDone ==
    /\ pc = "filter"
    /\ IF meshWarp
       THEN EnterWarp
       ELSE /\ dst' = [src EXCEPT !.hasTriangles = TRUE,
                                  !.DelaunayTriangles = validTriangles]
            /\ pc' = "ready"
            /\ UNCHANGED <<stats, covered, firstBuffer, firstDrawn, contributions>>
    /\ UNCHANGED <<modelVars, last, src, warning, alignVars, chained,
                   meshWarp, scaleFactor, meshPoints, taken, validTriangles, i,
                   mappedPoints>>

\* a destination point that is not a finite number
NotFinite(p) == p.x = NaN \/ p.y = NaN

\* the masks lines 249-256 can yield for the destination points dp
Masks(dp, cols, rows) ==
    IF \E j \in 1..3 : NotFinite(dp[j])
    THEN {Zeros(cols, rows), [k \in 1..(cols * rows) |-> 255]}
    ELSE {FillConvexPoly([j \in 1..3 |-> MaskPoint(dp[j])], cols, rows)}

\* one pass of the loop of lines 223-269; buffer is what warpAffine resampled
WarpTriangle ==
    /\ pc = "warp"
    /\ i < Len(validTriangles)
    /\ LET cols == src.m.cols
           rows == src.m.rows
           tri == <<validTriangles[i + 1], validTriangles[i + 2], validTriangles[i + 3]>>
           dstPoints == DstPoints(tri, stats, scaleFactor, cols, rows)
       IN  /\ mappedPoints' = mappedPoints \o dstPoints
           /\ \E filled \in Masks(dstPoints, cols, rows) :
              \E buffer \in ResampledBuffers(src.m) :
                LET mask == OverlapRule(i, dst.m.pix, filled)
                    output == BitwiseAnd(buffer, mask)
                IN  /\ dst' = [dst EXCEPT !.m.pix = Composite(dst.m.pix, buffer, mask)]
                    /\ covered' = [k \in 1..(cols * rows) |->
                            covered[k] + (IF filled[k] = 255 THEN 1 ELSE 0)]
                    /\ firstBuffer' = [k \in 1..(cols * rows) |->
                            IF filled[k] = 255 /\ covered[k] = 0 THEN buffer[k]
                            ELSE firstBuffer[k]]
                    /\ firstDrawn' = [k \in 1..(cols * rows) |->
                            IF filled[k] = 255 /\ firstDrawn[k] = 0 THEN buffer[k]
                            ELSE firstDrawn[k]]
                    /\ contributions' = [k \in 1..(cols * rows) |->
                            contributions[k] + (IF output[k] # 0 THEN 1 ELSE 0)]
    /\ i' = i + 3
    /\ UNCHANGED <<modelVars, pc, last, src, warning, alignVars, chained,
                   meshWarp, scaleFactor, meshPoints, taken, validTriangles, stats>>

\* cvFloor of a float
cvFloor(v) == v \div Unit

RECURSIVE MinOf(_)
MinOf(s) == IF Len(s) = 1 THEN s[1] ELSE Min2(Head(s), MinOf(Tail(s)))

RECURSIVE MaxOf(_)
MaxOf(s) == IF Len(s) = 1 THEN s[1] ELSE Max2(Head(s), MaxOf(Tail(s)))

\* OpenCVUtils::fromRect(boundingRect(mappedPoints)) for finite points
BoundingRect(ps) ==
    LET xs == [k \in 1..Len(ps) |-> cvFloor(ps[k].x)]
        ys == [k \in 1..Len(ps) |-> cvFloor(ps[k].y)]
    IN  QRectF(MinOf(xs), MinOf(ys),
               MaxOf(xs) - MinOf(xs) + 1, MaxOf(ys) - MinOf(ys) + 1)

\* the rects boundingRect can yield
BoundingRects(ps) ==
    IF ps = <<>> \/ \E k \in 1..Len(ps) : NotFinite(ps[k])
    THEN {QRectF(0, 0, 0, 0)}
    ELSE {BoundingRect(ps)}

\* lines 271-276: the warp loop is over
WarpDone ==
    /\ pc = "warp"
    /\ i >= Len(validTriangles)
    /\ \/ \* boundingRect rejects an empty point list
          /\ mappedPoints = <<>>
          /\ pc' = "crash"
          /\ UNCHANGED dst
       \/ \E box \in BoundingRects(mappedPoints) :
             /\ dst' = [dst EXCEPT !.rects = <<box>>,
                                   !.hasTriangles = TRUE,
                                   !.DelaunayTriangles = validTriangles]
             /\ pc' = "ready"
    /\ UNCHANGED <<modelVars, last, src, warning, alignVars, chained,
                   meshWarp, scaleFactor, meshPoints, taken, validTriangles, i,
                   stats, mappedPoints, covered, firstBuffer, firstDrawn,
                   contributions>>

---------------------------------------------------------------------------
(* The record is done: nothing of it stays but meanShape *)

NextRecord ==
    /\ pc = "ready"
    /\ last # "none"
    /\ last' = "none"
    /\ src' = EmptyTemplate
    /\ dst' = EmptyTemplate
    /\ warning' = FALSE
    /\ NoAlign
    /\ NoMesh
    /\ UNCHANGED <<modelVars, pc>>

---------------------------------------------------------------------------

Next ==
    \/ \E data \in TrainingSets : Train(data) /\ UNCHANGED <<calls, windowVars>>
    \/ \E record \in InputRecords, warp \in BOOLEAN :
          ProcrustesProject(record, warp) /\ UNCHANGED <<calls, windowVars>>
    \/ \E record \in InputRecords \cup {dst}, chain \in BOOLEAN, warp \in BOOLEAN,
          sf \in ScaleFactors :
            DelaunayProject(record, chain, warp, sf) /\ UNCHANGED <<calls, windowVars>>
    \/ FilterTriangle /\ UNCHANGED <<calls, windowVars>>
    \/ FilterDone /\ UNCHANGED <<calls, windowVars>>
    \/ WarpTriangle /\ UNCHANGED <<calls, windowVars>>
    \/ WarpDone /\ UNCHANGED <<calls, windowVars>>
    \/ NextRecord /\ UNCHANGED <<calls, windowVars>>

Spec == Init /\ [][Next]_vars

---------------------------------------------------------------------------
(* ProcrustesTransform::project called from several threads on one trained *)
(* transform: each call has its own src, dst and locals, meanShape is the  *)
(* one member they share.  A call is split where it reads meanShape.       *)

\* AssignDst on a dst that the calls of all threads share
AssignDstShared(cs, t, value, warned) ==
    [u \in Threads |->
        IF u = t
        THEN [cs[u] EXCEPT !.dst = value, !.warning = warned, !.pc = "returned"]
        ELSE [cs[u] EXCEPT !.dst = value]]

\* dst of the call of thread t becomes value: dst is the caller's own Template
AssignDst(cs, t, value, warned) ==
    [cs EXCEPT ![t].dst = value, ![t].warning = warned, ![t].pc = "returned"]

\* lines 81-105: the call is entered; the empty check, the corners, the
\* centering and the scaling work on the locals of the call
Enter(t, record, warp) ==
    /\ pc = "ready"
    /\ trained
    /\ calls[t].pc = "idle"
    /\ LET entered == [calls EXCEPT ![t].src = record, ![t].warp = warp]
       IN  IF record.points = <<>> \/ record.rects = <<>>
           THEN calls' = AssignDst(entered, t, record, TRUE)
           ELSE LET points == AppendCorners(record.points, record.rects)
                    n == Normalize(points)
                IN  calls' = [entered EXCEPT ![t].pc = "normalized",
                                             ![t].points = points,
                                             ![t].srcMat = SrcMat(n.points),
                                             ![t].mean = n.mean,
                                             ![t].norm = n.norm]

\* lines 107-108: the product with meanShape and its SVD
Rotate(t) ==
    /\ calls[t].pc = "normalized"
    /\ \/ /\ Len(calls[t].srcMat) # Len(meanShape)
          /\ calls' = [calls EXCEPT ![t].pc = "crashed"]
       \/ \E R \in Rotations(calls[t].srcMat) :
             calls' = [calls EXCEPT ![t].pc = "rotated", ![t].R = R]

\* lines 110-123: dst = src, the stats and the appended points
Return(t) ==
    /\ calls[t].pc = "rotated"
    /\ LET c == calls[t]
           n == [mean |-> c.mean, norm |-> c.norm, points |-> c.srcMat]
       IN  calls' = AssignDst(calls, t, ProjectWith(c.src, n, c.R, c.warp), FALSE)

\* the caller is done with dst; the thread takes the next record
Leave(t) ==
    /\ calls[t].pc = "returned"
    /\ calls' = [calls EXCEPT ![t] = NoCall]

landmarkVars ==
    <<trainCalled, trainData, meanShape, trained, pc, last, src, dst, warning,
      alignWarp, alignPoints, alignStats, chained, meshWarp, scaleFactor,
      meshPoints, taken, validTriangles, i, stats, mappedPoints, covered,
      firstBuffer, firstDrawn, contributions>>

InferNext ==
    \/ \E data \in TrainingSets :
          (\A t \in Threads : calls[t].pc = "idle") /\ Train(data) /\ UNCHANGED <<calls, windowVars>>
    \/ \E t \in Threads, record \in InputRecords, warp \in BOOLEAN :
          Enter(t, record, warp) /\ UNCHANGED <<landmarkVars, windowVars>>
    \/ \E t \in Threads : Rotate(t) /\ UNCHANGED <<landmarkVars, windowVars>>
    \/ \E t \in Threads : Return(t) /\ UNCHANGED <<landmarkVars, windowVars>>
    \/ \E t \in Threads : Leave(t) /\ UNCHANGED <<landmarkVars, windowVars>>

InferSpec == Init /\ [][InferNext]_vars

---------------------------------------------------------------------------
(* SlidingWindowTransform (slidingwindow.cpp) *)

\* the transforms: properties set by the host, windowHeight by train
WindowTransforms ==
    { SlidingWindowTransform(1, FALSE, 1, 1, 0),
      SlidingWindowTransform(1, TRUE, 1, 1, 0),
      SlidingWindowTransform(2, FALSE, 1, 2, 0),
      SlidingWindowTransform(1, TRUE, 2, 1, Unit),
      SlidingWindowTransform(1, FALSE, 3, 1, 0) }

\* the records given to SlidingWindowTransform::project
WindowRecords ==
    { WindowRecord(3, 3, FALSE, Unit, <<>>, FALSE, <<>>),
      WindowRecord(4, 3, FALSE, 2 * Unit, <<QRectF(0, 0, 2, 2)>>, TRUE, <<Unit>>),
      WindowRecord(3, 2, FALSE, Unit, <<QRectF(1, 1, 1, 1)>>, FALSE, <<>>),
      WindowRecord(3, 3, TRUE, Unit, <<QRectF(0, 0, 2, 2)>>, TRUE, <<Unit>>) }

\* detect.m().at<float>(0): what transform->project can answer for a window
Confidences == {0 - Unit, 0, Unit, 2 * Unit}

\* the host sets the properties and train sets windowHeight
SetProperties(w) ==
    /\ slide.pc = "idle"
    /\ window' = w
    /\ UNCHANGED slide

\* lines 71-78: dst = src, the Train flag, clearRects, the confidences so far
SlideProject(record) ==
    /\ slide.pc = "idle"
    /\ window.trained
    /\ IF record.Train
       THEN slide' = [NoSlide EXCEPT !.pc = "returned", !.src = record,
                                     !.dst = record]
       ELSE slide' = [NoSlide EXCEPT !.pc = "scan", !.src = record,
                                     !.dst = [record EXCEPT !.rects = <<>>],
                                     !.confidences = record.Confidences]
    /\ UNCHANGED window

\* line 79: y + windowHeight < src.m().rows
RowFits == slide.y + window.windowHeight < slide.src.rows

\* line 80: x + windowWidth < src.m().cols
WindowFits == slide.x + window.windowWidth < slide.src.cols

\* line 89: the rect of the window at (x, y), scaled in float
ScaledRect(x, y, scale) ==
    [x |-> ToFloat(Mul(x * Unit, scale)),
     y |-> ToFloat(Mul(y * Unit, scale)),
     w |-> ToFloat(Mul(window.windowWidth * Unit, scale)),
     h |-> ToFloat(Mul(window.windowHeight * Unit, scale))]

\* lines 81-93: one pass of the inner loop, conf the answer for the window
Slide(conf) ==
    /\ slide.pc = "scan"
    /\ RowFits
    /\ WindowFits
    /\ LET seen == [slide EXCEPT !.scanned =
                       Append(@, [x |-> slide.x, y |-> slide.y, conf |-> conf])]
       IN  IF conf > window.threshold
           THEN LET found ==
                      [seen EXCEPT !.dst.rects =
                                      Append(@, ScaledRect(slide.x, slide.y,
                                                           slide.src.scale)),
                                   !.confidences = Append(@, conf)]
                IN  IF window.takeFirst
                    THEN slide' = [found EXCEPT !.pc = "returned"]
                    ELSE slide' = [found EXCEPT !.x = @ + window.stepSize]
           ELSE slide' = [seen EXCEPT !.x = @ + window.stepSize]
    /\ UNCHANGED window

\* lines 79-80: the inner loop is over for this y
NextRow ==
    /\ slide.pc = "scan"
    /\ RowFits
    /\ ~WindowFits
    /\ slide' = [slide EXCEPT !.x = 0, !.y = @ + window.stepSize]
    /\ UNCHANGED window

\* line 96: the loops are over, setList("Confidences", confidences)
SlideDone ==
    /\ slide.pc = "scan"
    /\ ~RowFits
    /\ slide' = [slide EXCEPT !.pc = "returned",
                              !.dst.hasConfidences = TRUE,
                              !.dst.Confidences = slide.confidences]
    /\ UNCHANGED window

\* the caller is done with dst
SlideLeave ==
    /\ slide.pc = "returned"
    /\ slide' = NoSlide
    /\ UNCHANGED window

WindowNext ==
    \/ \E w \in WindowTransforms : SetProperties(w) /\ UNCHANGED <<landmarkVars, calls>>
    \/ \E record \in WindowRecords : SlideProject(record) /\ UNCHANGED <<landmarkVars, calls>>
    \/ \E conf \in Confidences : Slide(conf) /\ UNCHANGED <<landmarkVars, calls>>
    \/ NextRow /\ UNCHANGED <<landmarkVars, calls>>
    \/ SlideDone /\ UNCHANGED <<landmarkVars, calls>>
    \/ SlideLeave /\ UNCHANGED <<landmarkVars, calls>>

WindowSpec == Init /\ [][WindowNext]_vars

---------------------------------------------------------------------------
(* Properties *)

HasPointsAndRects(t) == Len(t.points) > 0 /\ Len(t.rects) > 0

\* the four corners of the rect of t appended last
Corners(t) ==
    LET r == t.rects[Len(t.rects)]
    IN  <<[x |-> r.x, y |-> r.y], [x |-> r.x + r.w, y |-> r.y],
          [x |-> r.x, y |-> r.y + r.h], [x |-> r.x + r.w, y |-> r.y + r.h]>>

\* p is not a pixel position of the image m
OffImage(p, m) ==
    p.x < 0 \/ p.y < 0 \/ p.x >= m.cols * Unit \/ p.y >= m.rows * Unit

\* the record the last project call was given cannot be processed
Unprocessable ==
    \/ ~HasPointsAndRects(src)
    \/ /\ last = "delaunay"
       /\ \E k \in 1..(Len(src.points) + 4) :
             OffImage((src.points \o Corners(src))[k], src.m)

C2_TrainNeedsUsableRecord ==
    trainCalled =>
        LET usable == SelectSeq(trainData, HasPointsAndRects)
        IN  IF usable = <<>>
            THEN pc = "fatal" /\ ~trained /\ meanShape = <<>>
            ELSE pc # "fatal" /\ trained
                    /\ Len(meanShape) = Len(usable[1].points) + 4

\* train skipped an unusable record and sized meanShape by the next one
C2_Witness ==
    /\ trainCalled
    /\ Len(trainData) = 2
    /\ ~HasPointsAndRects(trainData[1])
    /\ HasPointsAndRects(trainData[2])
    /\ Len(trainData[2].points) = 2
    /\ Len(meanShape) = 6

\* all the points of ps are the same point
Coincident(ps) == \A k \in 1..Len(ps) : ps[k] = ps[1]

\* C3: train on, and project of, a record whose landmarks and corners all
\* coincide (zero norm) ends in the fatal error.
C3_DegenerateIsFatal ==
    /\ (trainCalled /\ \E j \in 1..Len(trainData) :
            /\ HasPointsAndRects(trainData[j])
            /\ Coincident(trainData[j].points \o Corners(trainData[j])))
          => pc = "fatal"
    /\ (last = "procrustes" /\ HasPointsAndRects(src)
            /\ Coincident(src.points \o Corners(src)))
          => pc = "fatal"

\* v is a pixel position of the image m
InImage(v, m) ==
    0 <= v.x /\ v.x < m.cols * Unit /\ 0 <= v.y /\ v.y < m.rows * Unit

\* C4: every vertex of every triangle kept in validTriangles, and stored under
\* DelaunayTriangles, is a pixel position of the image: 0 <= x < cols and
\* 0 <= y < rows.
C4_ValidTrianglesInImage ==
    /\ \A k \in 1..Len(validTriangles) : InImage(validTriangles[k], src.m)
    /\ \A k \in 1..Len(dst.DelaunayTriangles) :
          InImage(dst.DelaunayTriangles[k], src.m)

\* triangles were stored after the filter had dropped at least one
C4_Witness ==
    /\ last = "delaunay"
    /\ dst.hasTriangles
    /\ Len(dst.DelaunayTriangles) > 0
    /\ 3 * taken > Len(validTriangles)

\* C5 as claimed: a pixel inside the masks of two or more triangles holds the
\* value resampled for the first of them, whatever that value is.
C5_FirstTriangleWins ==
    \A k \in 1..Len(covered) :
        covered[k] >= 2 => dst.m.pix[k] = firstBuffer[k]

\* C5, amended: a pixel inside the masks of two or more triangles holds the
\* first non-zero value resampled for it in TriangleList order (0 if there is
\* none): a triangle never changes a pixel that holds a non-zero value.
C5_FirstNonZeroWins ==
    \A k \in 1..Len(covered) :
        covered[k] >= 2 => dst.m.pix[k] = firstDrawn[k]

\* a pixel drawn non-zero by its first triangle was covered by a later one
C5_Witness ==
    \E k \in 1..Len(covered) :
        /\ covered[k] >= 2
        /\ firstBuffer[k] # 0
        /\ dst.m.pix[k] = firstBuffer[k]

\* C6: after any number of passes of the warp loop no pixel has received two
\* non-zero values, every non-zero pixel has received exactly one, and a pixel
\* in no destination mask is zero.
C6_OneContributionPerPixel ==
    \A k \in 1..Len(contributions) :
        /\ contributions[k] <= 1
        /\ dst.m.pix[k] # 0 => contributions[k] = 1
        /\ covered[k] = 0 => dst.m.pix[k] = 0

\* a pixel in two masks after two passes, with its one contribution
C6_Witness ==
    /\ i >= 6
    /\ \E k \in 1..Len(contributions) :
          covered[k] >= 2 /\ contributions[k] = 1 /\ dst.m.pix[k] # 0

\* ProcrustesTransform::project went past its empty check and returned
Aligned == last = "procrustes" /\ pc = "ready" /\ alignPoints # <<>>

\* the rows of srcMat*R of the last ProcrustesTransform::project
RotatedPoints == TimesR(SrcMat(Normalize(alignPoints).points), alignStats.R)

\* C7 as claimed: with warp the output landmarks are the N+4 rotated points,
\* without warp the input landmarks; the output has ProcrustesStats and the
\* image and rects of the input.
C7_WarpReplacesLandmarks ==
    Aligned =>
        /\ dst.hasStats /\ Len(dst.ProcrustesStats) = 7
        /\ dst.m = src.m /\ dst.rects = src.rects
        /\ dst.points = IF alignWarp THEN RotatedPoints ELSE src.points

\* C7, amended: with warp the output landmarks are the N input landmarks
\* followed by the N+4 rotated points.
C7_WarpAppendsToLandmarks ==
    Aligned =>
        /\ dst.hasStats /\ Len(dst.ProcrustesStats) = 7
        /\ dst.m = src.m /\ dst.rects = src.rects
        /\ dst.points = IF alignWarp THEN src.points \o RotatedPoints ELSE src.points
        /\ alignWarp => Len(dst.points) = 2 * Len(src.points) + 4

\* a record with two landmarks was aligned with warp
C7_Witness ==
    /\ Aligned
    /\ alignWarp
    /\ Len(src.points) = 2
    /\ Len(dst.points) = 8

\* the warp loop runs on the output of the aligner
WarpsAligned == pc = "warp" /\ chained /\ src.hasStats

\* C8 as claimed: the list holds R(0,0), R(1,0), R(1,1), R(0,1), meanX, meanY,
\* norm of the alignment, and the warp loop uses that R, mean and norm.
C8_StatsHandOff ==
    WarpsAligned =>
        /\ src.ProcrustesStats =
              <<alignStats.R.r00, alignStats.R.r10, alignStats.R.r11,
                alignStats.R.r01, alignStats.mean.x, alignStats.mean.y,
                alignStats.norm>>
        /\ stats = alignStats

\* C8, amended: as claimed, but the centroid handed over is the centroid of
\* the alignment stored as float.
C8_StatsHandOffAsFloat ==
    WarpsAligned =>
        /\ src.ProcrustesStats =
              <<alignStats.R.r00, alignStats.R.r10, alignStats.R.r11,
                alignStats.R.r01, ToFloat(alignStats.mean.x),
                ToFloat(alignStats.mean.y), alignStats.norm>>
        /\ stats.R = alignStats.R
        /\ stats.norm = alignStats.norm
        /\ stats.mean = [x |-> ToFloat(alignStats.mean.x),
                         y |-> ToFloat(alignStats.mean.y)]

\* the warp loop runs with a rotation that is not symmetric and a centroid
\* that is no float
C8_Witness ==
    /\ WarpsAligned
    /\ stats.R.r01 # stats.R.r10
    /\ stats.mean.x # alignStats.mean.x

\* the record train was given alone, whose rect is the whole image, is the
\* record that was aligned
SelfAligned ==
    /\ Len(trainData) = 1
    /\ HasPointsAndRects(trainData[1])
    /\ trainData[1].rects[Len(trainData[1].rects)] =
          [x |-> 0, y |-> 0, w |-> trainData[1].m.cols * Unit,
           h |-> trainData[1].m.rows * Unit]
    /\ alignPoints = trainData[1].points \o Corners(trainData[1])
    /\ src.m = trainData[1].m

Meshed == last = "delaunay" /\ chained

\* C10 as claimed: the mesher's points are the points the aligner normalized,
\* for either value of the aligner's warp.
C10_MesherTakesAlignedPoints ==
    Meshed => meshPoints = alignPoints

\* C10, amended: they are with the aligner's warp off; with it on the mesher
\* takes the raw landmarks, then the N+4 rotated points, then the corners.
C10_MesherTakesOutputPoints ==
    Meshed =>
        meshPoints =
            IF alignWarp /\ alignPoints # <<>>
            THEN LET n == Len(alignPoints) - 4
                 IN  SubSeq(alignPoints, 1, n)
                        \o TimesR(SrcMat(Normalize(alignPoints).points), alignStats.R)
                        \o SubSeq(alignPoints, n + 1, n + 4)
            ELSE alignPoints

\* the mesher triangulates the points the aligner normalized
C10_Witness ==
    /\ Meshed
    /\ pc = "filter"
    /\ ~alignWarp
    /\ meshPoints # <<>>
    /\ meshPoints = alignPoints

\* the record of the call c has as many points as meanShape has rows, or the
\* call fails for want of landmarks or rects
SameCount(c) ==
    ~HasPointsAndRects(c.src) \/ Len(c.src.points) + 4 = Len(meanShape)

\* what a returned call holds in dst is a result of project for its src and
\* warp and the present meanShape
ReturnsOwnResult(c) ==
    IF ~HasPointsAndRects(c.src)
    THEN c.dst = c.src /\ c.warning
    ELSE LET n == Normalize(AppendCorners(c.src.points, c.src.rects))
             M == CrossCovariance(SrcMat(n.points), meanShape)
         IN  /\ \E R \in SvdRotations(M) : c.dst = ProjectWith(c.src, n, R, c.warp)
             /\ ~c.warning

\* C11: once train has set meanShape, no step of any project call changes
\* it, in any number, order and interleaving of calls (failing ones too), and
\* what a call returns for a record (with as many points as meanShape has
\* rows) is fixed by that record, its warp and meanShape: the record itself
\* with a warning if it lacks landmarks or rects, else the alignment of it to
\* meanShape, whatever the other calls are doing or have done.
C11_MeanShapeReadOnly ==
    /\ [][trained => (meanShape' = meanShape /\ trained')]_vars
    /\ [](\A t \in Threads :
            (calls[t].pc = "returned" /\ SameCount(calls[t]))
                => ReturnsOwnResult(calls[t]))

\* a call has returned stats with a rotation that is not the identity while
\* the other thread is inside a call on another record
C11_Witness ==
    \E t \in Threads, u \in Threads :
        /\ t # u
        /\ calls[t].pc = "returned"
        /\ calls[t].dst.hasStats
        /\ calls[t].R # Identity2
        /\ SameCount(calls[t])
        /\ calls[u].pc = "normalized"
        /\ calls[u].src # calls[t].src

\* the confidence of the scanned window s exceeds threshold
Detected(s) == s.conf > window.threshold

\* the scanned window s starts at multiples of stepSize and lies inside the image
InsideImage(s) ==
    /\ s.x % window.stepSize = 0
    /\ s.y % window.stepSize = 0
    /\ s.x + window.windowWidth <= slide.src.cols
    /\ s.y + window.windowHeight <= slide.src.rows

\* the rects of dst are those of the detected windows, in the order of the
\* scan, and the Confidences stored on dst are those of src followed by one
\* confidence per rect, in the same order
Paired ==
    LET det == SelectSeq(slide.scanned, Detected)
    IN  /\ \A k \in 1..Len(slide.scanned) : InsideImage(slide.scanned[k])
        /\ slide.dst.rects =
              [k \in 1..Len(det) |->
                  ScaledRect(det[k].x, det[k].y, slide.src.scale)]
        /\ slide.dst.Confidences =
              slide.src.Confidences \o [k \in 1..Len(det) |-> det[k].conf]
        /\ Len(slide.dst.Confidences) =
              Len(slide.src.Confidences) + Len(slide.dst.rects)
        /\ window.takeFirst =>
              /\ Len(det) <= 1
              /\ Len(det) = 1 => Detected(slide.scanned[Len(slide.scanned)])

\* the pairing of rects and Confidences where project has run to the end of
\* its loops (no detection under takeFirst)
PairedAtEndOfScan ==
    (slide.pc = "returned" /\ ~slide.src.Train
        /\ ~(window.takeFirst /\ Len(slide.dst.rects) > 0)) => Paired

\* C12: a returned SlidingWindowTransform::project has left a record flagged
\* Train as it was, and for any other record, with takeFirst or without, the
\* rects of the output are exactly the scanned windows whose confidence
\* exceeds threshold and its Confidences list has gained one entry per rect,
\* in the same order.
C12_DetectionsPaired ==
    slide.pc = "returned" =>
        IF slide.src.Train THEN slide.dst = slide.src ELSE Paired

====
